---- MODULE Spec2Model ----
(***************************************************************************)
(* A model of mmf/common/report.py: class Report(OrderedDict).             *)
(*                                                                         *)
(* A Report is an ordered mapping, modelled as a sequence of entries       *)
(* [k |-> key, v |-> value].  A value is an int, a str, or a reference to  *)
(* an object of the heap (a list, a dict or a torch.Tensor); references    *)
(* make sharing between two Reports observable.  The interpreter is the    *)
(* one the module was written for (collections.MutableSequence exists).    *)
(***************************************************************************)
EXTENDS Integers, Sequences, FiniteSets, TLC

VARIABLES
    heap,     \* the objects values refer to: heap[id] = [kind, items, dev, grad]
    rep,      \* rep[r]: the Report bound to the name r, [live, d]
    outcome,  \* how the last call ended: "ok" or the exception it raised
    warns,    \* the warnings.warn calls of the last call, in call order
    last,     \* the last call and its arguments, with the state it started from
    ctorBS,   \* ctorBS[r]: what batch.get_batch_size() returned when r was built
    snap,     \* the Report copy() was called on, written out, as it was then
    steps     \* number of calls made on the Reports since they were built

vars == <<heap, rep, outcome, warns, last, ctorBS, snap, steps>>

(***************************************************************************)
(* Bounds of the model.                                                    *)
(***************************************************************************)
\* items summed over all the sources of one construction
MaxKeys == 3
\* extra positional arguments of one construction
MaxArgs == 1
\* calls made on the Reports after they are built
MaxSteps == 1
\* length of the field_list passed to accumulate
MaxFieldList == 2

(***************************************************************************)
(* Values and ordered mappings.                                            *)
(***************************************************************************)
IntV(n) == [t |-> "int", v |-> n]
StrV(n) == [t |-> "str", v |-> n]
RefV(id) == [t |-> "ref", v |-> id]
MethodV == [t |-> "method", v |-> 0]
NoVal == [t |-> "absent", v |-> 0]
AttributeErrorV == [t |-> "AttributeError", v |-> 0]

Entry(key, val) == [k |-> key, v |-> val]

\* a warnings.warn call: a key collision of the source at position idx, a
\* field or a loss key that accumulate did not find
Warn(kind, idx, key) == [kind |-> kind, idx |-> idx, key |-> key]

Has(d, key) == \E i \in 1..Len(d) : d[i].k = key

IndexOf(d, key) == CHOOSE i \in 1..Len(d) : d[i].k = key

\* d[key] for a key that is present
Get(d, key) == d[IndexOf(d, key)].v

\* d[key] = val of an ordered dict: a present key keeps its position
SetItem(d, key, val) ==
    IF Has(d, key) THEN [d EXCEPT ![IndexOf(d, key)].v = val]
    ELSE Append(d, Entry(key, val))

KeysOf(d) == [i \in 1..Len(d) |-> d[i].k]

KeySet(d) == {d[i].k : i \in 1..Len(d)}

\* Report.__setattr__: every attribute write is a key write; the class's
\* batch_size property setter is never reached
SetAttr(d, key, val) == SetItem(d, key, val)

\* names found by normal attribute lookup, for which __getattr__ is never
\* consulted: the methods the class defines, and keys and items, which it
\* inherits from OrderedDict and calls itself
ClassMethods ==
    {"get_batch_size", "fields", "apply_fn", "detach", "to",
     "accumulate_tensor_fields_and_loss", "copy", "keys", "items"}

\* Report.__getattr__: self[key], KeyError turned into AttributeError
GetAttrHook(d, key) == IF Has(d, key) THEN Get(d, key) ELSE AttributeErrorV

\* the batch_size property: returns self._batch_size; when that raises
\* AttributeError, attribute lookup falls back to __getattr__("batch_size")
BatchSizeProperty(d) ==
    IF GetAttrHook(d, "_batch_size") # AttributeErrorV
    THEN GetAttrHook(d, "_batch_size")
    ELSE GetAttrHook(d, "batch_size")

\* report.<key>: methods and the property win over the keys of the mapping
GetAttr(d, key) ==
    IF key \in ClassMethods THEN MethodV
    ELSE IF key = "batch_size" THEN BatchSizeProperty(d)
    ELSE GetAttrHook(d, key)

\* Report.get_batch_size
GetBatchSize(d) == GetAttr(d, "batch_size")

\* Report.fields
Fields(d) == KeysOf(d)

(***************************************************************************)
(* Construction.  A source argument is [kind, elem, items, gbs]:           *)
(*   kind "none"  None                                                     *)
(*   kind "map"   a Mapping; gbs is what get_batch_size() returns, or      *)
(*                NoVal when the object has no such method                 *)
(*   kind "seq"   a list, its elements all of shape elem: "strpair" a      *)
(*                (str, value) tuple, "intpair" a tuple whose first item   *)
(*                is no str, "empty" an empty tuple, "scalar" no tuple     *)
(*   kind "obj"   an object that is neither (an int)                       *)
(***************************************************************************)
NoneSrc == [kind |-> "none", elem |-> "", items |-> <<>>, gbs |-> NoVal]
MapSrc(m, g) == [kind |-> "map", elem |-> "", items |-> m, gbs |-> g]
SeqSrc(e, s) == [kind |-> "seq", elem |-> e, items |-> s, gbs |-> NoVal]
ObjSrc == [kind |-> "obj", elem |-> "", items |-> <<>>, gbs |-> NoVal]

\* the format string of lines 30-36
WarningString == StrV(0)

\* line 14 as if it read "if not batch"
BatchOmittedOrEmpty(batch) == batch.kind = "none" \/ batch.items = <<>>

\* line 14
BatchOmitted(batch) == batch.kind = "none"

\* lines 16-17
DefaultModelOutput(mo) == IF mo.kind = "none" THEN MapSrc(<<>>, NoVal) ELSE mo

RECURSIVE LoadPairs(_, _, _)
\* lines 63-64
LoadPairs(d, pairs, i) ==
    IF i > Len(pairs) THEN d
    ELSE LoadPairs(SetItem(d, pairs[i].k, pairs[i].v), pairs, i + 1)

\* Report._check_and_load_tuple: [ret, d, exc]
CheckAndLoadTuple(d, batch) ==
    IF batch.kind = "map" THEN [ret |-> FALSE, d |-> d, exc |-> "ok"]
    ELSE IF batch.kind = "obj" THEN [ret |-> FALSE, d |-> d, exc |-> "TypeError"]
    ELSE IF batch.items = <<>> THEN [ret |-> FALSE, d |-> d, exc |-> "IndexError"]
    ELSE IF batch.elem = "empty" THEN [ret |-> FALSE, d |-> d, exc |-> "IndexError"]
    ELSE IF batch.elem = "strpair"
         THEN [ret |-> TRUE, d |-> LoadPairs(d, batch.items, 1), exc |-> "ok"]
    ELSE [ret |-> FALSE, d |-> d, exc |-> "ok"]

\* lines 22-27: is some argument no Mapping
SomeNonMapping(all_args) == \E i \in 1..Len(all_args) : all_args[i].kind # "map"

\* line 40: idx counts from 0
ShouldWarn(d, key, idx) == Has(d, key) /\ idx >= 2

\* lines 40-45 for one item of the source at position idx; s = [d, warns, exc]
MergeItem(s, idx, e) ==
    IF s.exc # "ok" THEN s
    ELSE IF ShouldWarn(s.d, e.k, idx)
         THEN IF GetAttr(s.d, "warning_string").t # "str"
              THEN [s EXCEPT !.exc = "AttributeError"]
              ELSE [d |-> SetItem(s.d, e.k, e.v),
                    warns |-> Append(s.warns, Warn("collision", idx, e.k)),
                    exc |-> "ok"]
         ELSE [s EXCEPT !.d = SetItem(s.d, e.k, e.v)]

RECURSIVE MergeSource(_, _, _, _)
\* line 39: the items of one source, in its order
MergeSource(s, idx, items, j) ==
    IF j > Len(items) THEN s
    ELSE MergeSource(MergeItem(s, idx, items[j]), idx, items, j + 1)

RECURSIVE MergeAll(_, _, _)
\* line 38: the sources in argument order; all_args[i] is at position i - 1
MergeAll(s, all_args, i) ==
    IF i > Len(all_args) THEN s
    ELSE MergeAll(MergeSource(s, i - 1, all_args[i].items, 1), all_args, i + 1)

Raised(e) == [d |-> <<>>, warns |-> <<>>, exc |-> e, gbs |-> NoVal]

\* line 29 as if the assignment reached the property setter of lines 54-56
StoreBatchSizeInProperty(d, val) == SetItem(d, "_batch_size", val)

\* line 29: the Report after self.batch_size = batch.get_batch_size()
StoreBatchSize(d, val) == SetAttr(d, "batch_size", val)

\* Report.__init__: [d, warns, exc, gbs]
Construct(batch, model_output, args) ==
    IF BatchOmitted(batch)
    THEN [d |-> <<>>, warns |-> <<>>, exc |-> "ok", gbs |-> NoVal]
    ELSE LET mo == DefaultModelOutput(model_output)
             t == CheckAndLoadTuple(<<>>, batch)
             all_args == <<batch, mo>> \o args
         IN  IF t.exc # "ok" THEN Raised(t.exc)
             ELSE IF t.ret THEN [d |-> t.d, warns |-> <<>>, exc |-> "ok", gbs |-> NoVal]
             ELSE IF SomeNonMapping(all_args) THEN Raised("TypeError")
             ELSE IF batch.gbs = NoVal THEN Raised("AttributeError")
             ELSE LET d1 == StoreBatchSize(<<>>, batch.gbs)
                      d2 == SetAttr(d1, "warning_string", WarningString)
                      m == MergeAll([d |-> d2, warns |-> <<>>, exc |-> "ok"], all_args, 1)
                  IN  IF m.exc # "ok" THEN Raised(m.exc)
                      ELSE [d |-> m.d, warns |-> m.warns, exc |-> "ok", gbs |-> batch.gbs]

(***************************************************************************)
(* The heap.  An object is [kind, items, dev, grad]: a "list" (its items   *)
(* under the key ""), a "dict", or a "tensor": a torch.Tensor whose items  *)
(* are the int rows along dim 0, on device dev, grad = 1 while it is       *)
(* attached to a computation graph.                                        *)
(*                                                                         *)
(* A deep value [kind, n, dev, grad, items] is a value with the objects it *)
(* refers to written out: what == compares, and what a caller builds       *)
(* before a call.                                                          *)
(***************************************************************************)
IsRef(val) == val.t = "ref"

KindOf(h, val) == IF IsRef(val) THEN h[val.v].kind ELSE val.t

\* isinstance(x, torch.Tensor)
IsTensor(h, val) == KindOf(h, val) = "tensor"

DInt(n) == [kind |-> "int", n |-> n, dev |-> 0, grad |-> 0, items |-> <<>>]
DObj(kind, dev, grad, items) ==
    [kind |-> kind, n |-> 0, dev |-> dev, grad |-> grad, items |-> items]
DItem(key, dv) == [k |-> key, d |-> dv]
DTensor(rows, dev, grad) ==
    DObj("tensor", dev, grad, [i \in 1..Len(rows) |-> DItem("", DInt(rows[i]))])
DList(elems) == DObj("list", 0, 0, [i \in 1..Len(elems) |-> DItem("", elems[i])])
DDict(items) == DObj("dict", 0, 0, items)

RECURSIVE Deep(_, _)
Deep(h, val) ==
    IF IsRef(val)
    THEN LET o == h[val.v]
         IN  DObj(o.kind, o.dev, o.grad,
                  [i \in 1..Len(o.items) |-> DItem(o.items[i].k, Deep(h, o.items[i].v))])
    ELSE [kind |-> val.t, n |-> val.v, dev |-> 0, grad |-> 0, items |-> <<>>]

\* a Report with its values written out
DeepRep(h, d) == [i \in 1..Len(d) |-> DItem(d[i].k, Deep(h, d[i].v))]

RECURSIVE Alloc(_, _)
RECURSIVE AllocItems(_, _, _, _)
\* the caller's object for a deep value: [heap, val]
Alloc(h, dv) ==
    IF dv.kind \in {"int", "str"} THEN [heap |-> h, val |-> [t |-> dv.kind, v |-> dv.n]]
    ELSE LET r == AllocItems(h, dv.items, 1, <<>>)
         IN  [heap |-> Append(r.heap, [kind |-> dv.kind, items |-> r.items,
                                       dev |-> dv.dev, grad |-> dv.grad]),
              val |-> RefV(Len(r.heap) + 1)]

AllocItems(h, ditems, i, acc) ==
    IF i > Len(ditems) THEN [heap |-> h, items |-> acc]
    ELSE LET r == Alloc(h, ditems[i].d)
         IN  AllocItems(r.heap, ditems, i + 1, Append(acc, Entry(ditems[i].k, r.val)))

\* line 152 as if it read report[field] = self[field]
ShallowCopy(h, val) == [heap |-> h, val |-> val]

RECURSIVE DeepCopy(_, _)
RECURSIVE DeepCopyItems(_, _, _, _)
\* copy.deepcopy(val): [heap, val]; ints and strs are returned as they are
DeepCopy(h, val) ==
    IF ~IsRef(val) THEN [heap |-> h, val |-> val]
    ELSE LET r == DeepCopyItems(h, h[val.v].items, 1, <<>>)
         IN  [heap |-> Append(r.heap, [h[val.v] EXCEPT !.items = r.items]),
              val |-> RefV(Len(r.heap) + 1)]

DeepCopyItems(h, items, i, acc) ==
    IF i > Len(items) THEN [heap |-> h, items |-> acc]
    ELSE LET r == DeepCopy(h, items[i].v)
         IN  DeepCopyItems(r.heap, items, i + 1, Append(acc, Entry(items[i].k, r.val)))

RECURSIVE CopyFields(_, _, _, _)
\* lines 151-152: s = [heap, d], d the Report being filled
CopyFields(s, d, fields, i) ==
    IF i > Len(fields) THEN s
    ELSE LET r == DeepCopy(s.heap, Get(d, fields[i]))
         IN  CopyFields([heap |-> r.heap, d |-> SetItem(s.d, fields[i], r.val)],
                        d, fields, i + 1)

\* Report.copy: [heap, d]
Copy(h, d) == CopyFields([heap |-> h, d |-> <<>>], d, Fields(d), 1)

(***************************************************************************)
(* apply_fn, detach, to.  A transform is [name, dev]:                      *)
(*   "id"     lambda x: x                                                  *)
(*   "inc"    lambda x: x + 1 for an int or a tensor (a new tensor), x     *)
(*            for anything else                                            *)
(*   "detach" mmf.common.sample.detach_tensor                              *)
(*   "to"     the closure fn of Report.to, for the device dev              *)
(* fields is [kind, items]: kind "none" for None, else "list", "tuple" or  *)
(* "set", with the keys it holds.                                          *)
(***************************************************************************)
NoFn == [name |-> "", dev |-> 0]
NoFields == [kind |-> "none", items |-> {}]

IncRows(items) == [i \in 1..Len(items) |-> Entry("", IntV(items[i].v.v + 1))]

\* a new tensor object: what x + 1, x.detach() and a moving x.to(device) return
NewTensor(h, o) == [heap |-> Append(h, o), val |-> RefV(Len(h) + 1)]

\* detach_tensor(x): a tensor is replaced by x.detach(), anything else is kept
DetachTensor(h, val) ==
    IF IsTensor(h, val) THEN NewTensor(h, [h[val.v] EXCEPT !.grad = 0])
    ELSE [heap |-> h, val |-> val]

\* lines 107-110: only a value with a "to" attribute is moved; Tensor.to
\* returns the tensor itself when it is on the device already
ToDevice(h, val, dev) ==
    IF IsTensor(h, val) /\ h[val.v].dev # dev
    THEN NewTensor(h, [h[val.v] EXCEPT !.dev = dev])
    ELSE [heap |-> h, val |-> val]

\* fn(x): [heap, val]
CallFn(h, fn, val) ==
    IF fn.name = "inc"
    THEN IF val.t = "int" THEN [heap |-> h, val |-> IntV(val.v + 1)]
         ELSE IF IsTensor(h, val)
              THEN NewTensor(h, [h[val.v] EXCEPT !.items = IncRows(h[val.v].items)])
              ELSE [heap |-> h, val |-> val]
    ELSE IF fn.name = "detach" THEN DetachTensor(h, val)
    ELSE IF fn.name = "to" THEN ToDevice(h, val, fn.dev)
    ELSE [heap |-> h, val |-> val]

\* line 83 as if it read "if fields:"
RestrictsWhenNonEmpty(fields) == fields.kind # "none" /\ fields.items # {}

\* line 83: fields is not None and isinstance(fields, (list, tuple))
Restricts(fields) == fields.kind \in {"list", "tuple"}

\* lines 83-85: is the key processed
Selected(fields, key) == Restricts(fields) => key \in fields.items

RECURSIVE ApplyNested(_, _, _, _)
\* lines 88-89 and 91-92: self[key][idx] = fn(item), in place, in order
ApplyNested(h, fn, id, i) ==
    IF i > Len(h[id].items) THEN h
    ELSE LET r == CallFn(h, fn, h[id].items[i].v)
         IN  ApplyNested([r.heap EXCEPT ![id].items[i].v = r.val], fn, id, i + 1)

\* lines 86-92 for one key: s = [heap, d]
ApplyKey(s, fn, i) ==
    LET r == CallFn(s.heap, fn, s.d[i].v)
        d1 == [s.d EXCEPT ![i].v = r.val]
    IN  IF KindOf(r.heap, r.val) \in {"list", "dict"}
        THEN [heap |-> ApplyNested(r.heap, fn, r.val.v, 1), d |-> d1]
        ELSE [heap |-> r.heap, d |-> d1]

RECURSIVE ApplyKeys(_, _, _, _)
\* line 82: the keys in order
ApplyKeys(s, fn, fields, i) ==
    IF i > Len(s.d) THEN s
    ELSE IF Selected(fields, s.d[i].k) THEN ApplyKeys(ApplyKey(s, fn, i), fn, fields, i + 1)
    ELSE ApplyKeys(s, fn, fields, i + 1)

\* Report.apply_fn: [heap, d]
ApplyFn(h, d, fn, fields) == ApplyKeys([heap |-> h, d |-> d], fn, fields, 1)

\* Report.detach
Detach(h, d) == ApplyFn(h, d, [name |-> "detach", dev |-> 0], NoFields)

\* Report.to; device is [type, dev], type "str", "device" or anything else
To(h, d, device, fields) ==
    IF device.type \notin {"str", "device"}
    THEN [heap |-> h, d |-> d, exc |-> "TypeError"]
    ELSE LET r == ApplyFn(h, d, [name |-> "to", dev |-> device.dev], fields)
         IN  [heap |-> r.heap, d |-> r.d, exc |-> "ok"]

(***************************************************************************)
(* accumulate_tensor_fields_and_loss.  The state threaded through the      *)
(* loops is [heap, d, warns, exc], d the Report self; a raised exception   *)
(* ends the call and keeps what was written before it.                     *)
(***************************************************************************)
Sentinel == "__prediction_report__"

\* torch.cat((a, b), dim=0) of two tensors: a new tensor, a's rows first
Cat(h, a, b) ==
    NewTensor(h, [h[a.v] EXCEPT !.items = h[a.v].items \o h[b.v].items])

\* line 125 as if the tuple read (report[key], self[key])
CatOtherFirst(h, a, b) == Cat(h, b, a)

\* line 125's torch.cat((self[key], report[key]), dim=0)
CatFields(h, a, b) == Cat(h, a, b)

\* lines 116-125 for one name of field_list
AccumulateField(s, other, key) ==
    IF s.exc # "ok" \/ key = Sentinel THEN s
    ELSE IF ~Has(s.d, key)
         THEN [s EXCEPT !.warns = Append(@, Warn("field", 0, key))]
    ELSE IF ~IsTensor(s.heap, Get(s.d, key)) THEN s
    ELSE IF ~Has(other, key) THEN [s EXCEPT !.exc = "KeyError"]
    ELSE IF ~IsTensor(s.heap, Get(other, key)) THEN [s EXCEPT !.exc = "TypeError"]
    ELSE LET r == CatFields(s.heap, Get(s.d, key), Get(other, key))
         IN  [s EXCEPT !.heap = r.heap, !.d = SetItem(s.d, key, r.val)]

RECURSIVE AccumulateFields(_, _, _, _)
\* line 115
AccumulateFields(s, other, field_list, i) ==
    IF i > Len(field_list) THEN s
    ELSE AccumulateFields(AccumulateField(s, other, field_list[i]), other, field_list, i + 1)

\* can x be added to a tensor of n rows: an int, or a tensor of 1 or n rows
Addable(h, val, n) ==
    \/ val.t = "int"
    \/ IsTensor(h, val) /\ Len(h[val.v].items) \in {1, n}

\* row i of the addend
AddendRow(h, val, i) ==
    IF val.t = "int" THEN val.v
    ELSE IF Len(h[val.v].items) = 1 THEN h[val.v].items[1].v.v
    ELSE h[val.v].items[i].v.v

\* line 138: tensor += value, in place
AddInPlace(h, id, val) ==
    [h EXCEPT ![id].items =
        [i \in 1..Len(h[id].items) |->
            Entry("", IntV(h[id].items[i].v.v + AddendRow(h, val, i)))]]

\* has the value .items() and .keys(): is it a dict
IsDict(h, val) == KindOf(h, val) = "dict"

\* lines 131-138 for one item of report.losses
AccumulateLossItem(s, e) ==
    IF s.exc # "ok" THEN s
    ELSE LET sl == GetAttr(s.d, "losses")
         IN  IF ~IsDict(s.heap, sl) THEN [s EXCEPT !.exc = "AttributeError"]
             ELSE IF ~Has(s.heap[sl.v].items, e.k)
                  THEN [s EXCEPT !.warns = Append(@, Warn("loss", 0, e.k))]
             ELSE LET cur == Get(s.heap[sl.v].items, e.k)
                  IN  IF ~IsTensor(s.heap, cur) THEN s
                      ELSE IF ~Addable(s.heap, e.v, Len(s.heap[cur.v].items))
                           THEN [s EXCEPT !.exc = IF IsTensor(s.heap, e.v)
                                                  THEN "RuntimeError" ELSE "TypeError"]
                      ELSE [s EXCEPT !.heap = AddInPlace(s.heap, cur.v, e.v)]

RECURSIVE AccumulateLossItems(_, _, _)
\* line 130: the items of report.losses as they were when the loop began
AccumulateLossItems(s, items, i) ==
    IF i > Len(items) THEN s
    ELSE AccumulateLossItems(AccumulateLossItem(s, items[i]), items, i + 1)

\* Report._accumulate_loss
AccumulateLoss(s, other) ==
    IF s.exc # "ok" THEN s
    ELSE LET ol == GetAttr(other, "losses")
         IN  IF ~IsDict(s.heap, ol) THEN [s EXCEPT !.exc = "AttributeError"]
             ELSE AccumulateLossItems(s, s.heap[ol.v].items, 1)

\* Report.accumulate_tensor_fields_and_loss: [heap, d, warns, exc]
Accumulate(h, d, other, field_list) ==
    AccumulateLoss(
        AccumulateFields([heap |-> h, d |-> d, warns |-> <<>>, exc |-> "ok"],
                         other, field_list, 1),
        other)

(***************************************************************************)
(* The arguments the construction is checked with.                         *)
(***************************************************************************)
Reports == {"self", "other"}

NoReport == [live |-> FALSE, d |-> <<>>]

CtorKeys == {"a", "b", "batch_size", "warning_string"}

\* the value the source at position idx gives a key: its position tells the
\* sources apart; a caller's "warning_string" may or may not be a str
SrcValues(idx, key) ==
    IF key = "warning_string" THEN {IntV(idx + 1), StrV(idx + 1)} ELSE {IntV(idx + 1)}

SrcEntries(idx) ==
    UNION {{Entry(key, val) : val \in SrcValues(idx, key)} : key \in CtorKeys}

SeqsUpTo(S, n) == UNION {[1..m -> S] : m \in 0..n}

Injective(s) == \A i, j \in 1..Len(s) : s[i].k = s[j].k => i = j

\* the mappings of at most n items a caller may pass at position idx
SrcMaps(idx, n) == {m \in SeqsUpTo(SrcEntries(idx), n) : Injective(m)}

BatchSize == IntV(8)

Batches(n) ==
    {NoneSrc, ObjSrc}
    \cup {MapSrc(m, g) : m \in SrcMaps(0, n), g \in {BatchSize, NoVal}}
    \cup {SeqSrc("strpair", s) : s \in SeqsUpTo(SrcEntries(0), n)}
    \cup {SeqSrc(e, <<Entry("", IntV(0))>>) : e \in {"intpair", "empty", "scalar"}}

ModelOutputs(n) == {NoneSrc, ObjSrc} \cup {MapSrc(m, NoVal) : m \in SrcMaps(1, n)}

ExtraArgs(idx, n) == {ObjSrc} \cup {MapSrc(m, NoVal) : m \in SrcMaps(idx, n)}

RECURSIVE ArgLists(_, _, _)
\* the lists of at most count extra arguments holding at most n items in all,
\* the first of them at position idx
ArgLists(idx, count, n) ==
    {<<>>} \cup
    (IF count = 0 THEN {}
     ELSE UNION {{<<a>> \o rest : rest \in ArgLists(idx + 1, count - 1, n - Len(a.items))}
                 : a \in ExtraArgs(idx, n)})

NoCall ==
    [op |-> "none", target |-> "", batch |-> NoneSrc, mo |-> NoneSrc, args |-> <<>>,
     fn |-> NoFn, fields |-> NoFields, key |-> "", val |-> NoVal, list |-> <<>>,
     pre |-> <<>>, preOther |-> <<>>]

Init ==
    /\ heap = <<>>
    /\ rep = [r \in Reports |-> NoReport]
    /\ outcome = "ok"
    /\ warns = <<>>
    /\ last = NoCall
    /\ ctorBS = [r \in Reports |-> NoVal]
    /\ snap = <<>>
    /\ steps = 0

\* r = Report(batch, model_output, *args); a raising call binds nothing
ConstructOp(r, c) ==
    LET res == Construct(c.batch, c.mo, c.args)
    IN  /\ rep' = [rep EXCEPT ![r] = IF res.exc = "ok"
                                    THEN [live |-> TRUE, d |-> res.d]
                                    ELSE NoReport]
        /\ outcome' = res.exc
        /\ warns' = res.warns
        /\ ctorBS' = [ctorBS EXCEPT ![r] = res.gbs]
        /\ last' = [NoCall EXCEPT !.op = "construct", !.target = r, !.batch = c.batch,
                                   !.mo = c.mo, !.args = c.args]
        /\ UNCHANGED <<heap, snap, steps>>

\* self = Report(...) with any arguments holding at most MaxKeys items in all
NewReport ==
    /\ last.op = "none"
    /\ \E b \in Batches(MaxKeys) :
        \E m \in ModelOutputs(MaxKeys - Len(b.items)) :
            \E a \in ArgLists(2, MaxArgs, MaxKeys - Len(b.items) - Len(m.items)) :
                ConstructOp("self", [batch |-> b, mo |-> m, args |-> a])

Next == NewReport

Spec == Init /\ [][Next]_vars

(***************************************************************************)
(* Calls on Reports that were built from a batch.                          *)
(***************************************************************************)
RECURSIVE Pick(_, _, _)
\* the items of seq at the indices in S, in order
Pick(seq, S, i) ==
    IF i > Len(seq) THEN <<>>
    ELSE (IF i \in S THEN <<seq[i]>> ELSE <<>>) \o Pick(seq, S, i + 1)

OpItems ==
    <<DItem("a", DInt(1)),
      DItem("meta", DList(<<DInt(1), DInt(2)>>)),
      DItem("losses", DDict(<<DItem("ce", DTensor(<<1>>, 0, 1))>>)),
      DItem("scores", DTensor(<<1, 2>>, 0, 1))>>

\* the batches the Reports of SpecOps and SpecCopy are built from
OpTemplates == {Pick(OpItems, S, 1) : S \in SUBSET (1..Len(OpItems))}

\* the Reports self (and other, unless its template is <<>>) as built by
\* Report(batch) from batches holding the given items
BuiltFrom(selfItems, otherItems, withOther) ==
    LET a1 == AllocItems(<<>>, selfItems, 1, <<>>)
        a2 == AllocItems(a1.heap, otherItems, 1, <<>>)
        c1 == Construct(MapSrc(a1.items, BatchSize), NoneSrc, <<>>)
        c2 == Construct(MapSrc(a2.items, BatchSize), NoneSrc, <<>>)
    IN  /\ heap = a2.heap
        /\ rep = [r \in Reports |->
                    IF r = "self" THEN [live |-> TRUE, d |-> c1.d]
                    ELSE IF withOther THEN [live |-> TRUE, d |-> c2.d]
                    ELSE NoReport]
        /\ ctorBS = [r \in Reports |->
                       IF r = "self" THEN c1.gbs
                       ELSE IF withOther THEN c2.gbs ELSE NoVal]
        /\ outcome = "ok"
        /\ warns = <<>>
        /\ last = NoCall
        /\ snap = <<>>
        /\ steps = 0

Did(r, op) == [NoCall EXCEPT !.op = op, !.target = r, !.pre = DeepRep(heap, rep[r].d)]

CanCall(r) == steps < MaxSteps /\ rep[r].live

Fns == {[name |-> "id", dev |-> 0], [name |-> "inc", dev |-> 0]}

FieldChoices ==
    {NoFields} \cup {[kind |-> kind, items |-> S] :
                        kind \in {"list", "tuple", "set"}, S \in SUBSET {"a", "meta"}}

Devices == {[type |-> "str", dev |-> 1], [type |-> "device", dev |-> 1],
            [type |-> "int", dev |-> 1]}

WriteKeys == {"a", "batch_size", "_batch_size", "fields"}

\* rep[r].apply_fn(fn, fields)
ApplyFnOp(r, fn, fields) ==
    /\ CanCall(r)
    /\ LET res == ApplyFn(heap, rep[r].d, fn, fields)
       IN  /\ heap' = res.heap
           /\ rep' = [rep EXCEPT ![r].d = res.d]
    /\ outcome' = "ok"
    /\ warns' = <<>>
    /\ last' = [Did(r, "apply_fn") EXCEPT !.fn = fn, !.fields = fields]
    /\ steps' = steps + 1
    /\ UNCHANGED <<ctorBS, snap>>

\* rep[r].detach()
DetachOp(r) ==
    /\ CanCall(r)
    /\ LET res == Detach(heap, rep[r].d)
       IN  /\ heap' = res.heap
           /\ rep' = [rep EXCEPT ![r].d = res.d]
    /\ outcome' = "ok"
    /\ warns' = <<>>
    /\ last' = Did(r, "detach")
    /\ steps' = steps + 1
    /\ UNCHANGED <<ctorBS, snap>>

\* rep[r].to(device, fields=fields)
ToOp(r, device, fields) ==
    /\ CanCall(r)
    /\ LET res == To(heap, rep[r].d, device, fields)
       IN  /\ heap' = res.heap
           /\ rep' = [rep EXCEPT ![r].d = res.d]
           /\ outcome' = res.exc
    /\ warns' = <<>>
    /\ last' = [Did(r, "to") EXCEPT !.fn = [name |-> "to", dev |-> device.dev],
                                    !.key = device.type, !.fields = fields]
    /\ steps' = steps + 1
    /\ UNCHANGED <<ctorBS, snap>>

\* rep[r][key] = val
SetItemOp(r, key, val) ==
    /\ CanCall(r)
    /\ rep' = [rep EXCEPT ![r].d = SetItem(@, key, val)]
    /\ outcome' = "ok"
    /\ warns' = <<>>
    /\ last' = [Did(r, "setitem") EXCEPT !.key = key, !.val = val]
    /\ steps' = steps + 1
    /\ UNCHANGED <<heap, ctorBS, snap>>

\* rep[r].<key> = val
SetAttrOp(r, key, val) ==
    /\ CanCall(r)
    /\ rep' = [rep EXCEPT ![r].d = SetAttr(@, key, val)]
    /\ outcome' = "ok"
    /\ warns' = <<>>
    /\ last' = [Did(r, "setattr") EXCEPT !.key = key, !.val = val]
    /\ steps' = steps + 1
    /\ UNCHANGED <<heap, ctorBS, snap>>

\* rep[r][key][i] = val, in place, for a nested list or dict
SetNestedOp(r, key, i, val) ==
    /\ CanCall(r)
    /\ Has(rep[r].d, key)
    /\ KindOf(heap, Get(rep[r].d, key)) \in {"list", "dict"}
    /\ i \in 1..Len(heap[Get(rep[r].d, key).v].items)
    /\ heap' = [heap EXCEPT ![Get(rep[r].d, key).v].items[i].v = val]
    /\ outcome' = "ok"
    /\ warns' = <<>>
    /\ last' = [Did(r, "setnested") EXCEPT !.key = key, !.val = val]
    /\ steps' = steps + 1
    /\ UNCHANGED <<rep, ctorBS, snap>>

\* rep[r].accumulate_tensor_fields_and_loss(rep[o], field_list)
AccumulateOp(r, o, field_list) ==
    /\ CanCall(r)
    /\ rep[o].live
    /\ LET res == Accumulate(heap, rep[r].d, rep[o].d, field_list)
       IN  /\ heap' = res.heap
           /\ rep' = [rep EXCEPT ![r].d = res.d]
           /\ outcome' = res.exc
           /\ warns' = res.warns
    /\ last' = [Did(r, "accumulate") EXCEPT !.list = field_list,
                                            !.preOther = DeepRep(heap, rep[o].d)]
    /\ steps' = steps + 1
    /\ UNCHANGED <<ctorBS, snap>>

\* rep[dst] = rep[src].copy()
CopyOp(src, dst) ==
    /\ rep[src].live
    /\ ~rep[dst].live
    /\ LET res == Copy(heap, rep[src].d)
       IN  /\ heap' = res.heap
           /\ rep' = [rep EXCEPT ![dst] = [live |-> TRUE, d |-> res.d]]
    /\ outcome' = "ok"
    /\ warns' = <<>>
    /\ last' = Did(src, "copy")
    /\ snap' = DeepRep(heap, rep[src].d)
    /\ UNCHANGED <<ctorBS, steps>>

(***************************************************************************)
(* SpecOps: one Report, transformed and written to.                        *)
(***************************************************************************)
InitOps == \E t \in OpTemplates : BuiltFrom(t, <<>>, FALSE)

Transform == \E fn \in Fns, fields \in FieldChoices : ApplyFnOp("self", fn, fields)

DetachAll == DetachOp("self")

Relocate == \E device \in Devices, fields \in FieldChoices : ToOp("self", device, fields)

NextOps == Transform \/ DetachAll \/ Relocate

SpecOps == InitOps /\ [][NextOps]_vars

(***************************************************************************)
(* SpecAccess: one Report, written to by subscript and by attribute.       *)
(***************************************************************************)
InitAccess == \E t \in OpTemplates : BuiltFrom(t, <<>>, FALSE)

WriteKey == \E key \in WriteKeys : SetItemOp("self", key, IntV(7))

WriteAttribute == \E key \in WriteKeys : SetAttrOp("self", key, IntV(6))

NextAccess == WriteKey \/ WriteAttribute

SpecAccess == InitAccess /\ [][NextAccess]_vars

(***************************************************************************)
(* SpecAcc: self accumulates other.                                        *)
(***************************************************************************)
Alternatives(items) == {<<>>} \cup {<<items[i]>> : i \in 1..Len(items)}

AccSelfTemplates ==
    {a \o b \o c :
        a \in Alternatives(<<DItem("scores", DTensor(<<1, 2>>, 0, 1)),
                             DItem("scores", DInt(1))>>),
        b \in Alternatives(<<DItem(Sentinel, DTensor(<<4>>, 0, 0))>>),
        c \in Alternatives(<<DItem("losses", DDict(<<DItem("ce", DTensor(<<1>>, 0, 1))>>)),
                             DItem("losses", DDict(<<DItem("ce", DInt(1))>>))>>)}

AccOtherTemplates ==
    {a \o b \o c :
        a \in Alternatives(<<DItem("scores", DTensor(<<3>>, 0, 1)),
                             DItem("scores", DInt(3))>>),
        b \in {<<DItem(Sentinel, DTensor(<<6>>, 0, 0))>>},
        c \in Alternatives(<<DItem("losses", DDict(<<DItem("ce", DTensor(<<5>>, 0, 1))>>)),
                             DItem("losses", DDict(<<DItem("ce", DTensor(<<5>>, 0, 1)),
                                                     DItem("extra", DTensor(<<9>>, 0, 1))>>))>>)}

AccNames == {"scores", "missing", Sentinel}

InitAcc == \E s \in AccSelfTemplates, o \in AccOtherTemplates : BuiltFrom(s, o, TRUE)

AccumulateOther ==
    \E field_list \in SeqsUpTo(AccNames, MaxFieldList) :
        AccumulateOp("self", "other", field_list)

NextAcc == AccumulateOther

SpecAcc == InitAcc /\ [][NextAcc]_vars

(***************************************************************************)
(* SpecCopy: other = self.copy(), then other is mutated.                   *)
(***************************************************************************)
InitCopy == \E t \in OpTemplates : BuiltFrom(t, <<>>, FALSE)

TakeCopy == CopyOp("self", "other")

ReassignInCopy ==
    \E key \in WriteKeys \cup {"meta", "losses"} : SetItemOp("other", key, IntV(7))

MutateNestedInCopy ==
    \E key \in {"meta", "losses"}, i \in 1..2 : SetNestedOp("other", key, i, IntV(9))

TransformCopy == \E fn \in Fns, fields \in FieldChoices : ApplyFnOp("other", fn, fields)

AccumulateIntoCopy ==
    \E field_list \in SeqsUpTo({"scores"}, MaxFieldList) :
        AccumulateOp("other", "self", field_list)

NextCopy ==
    TakeCopy \/ ReassignInCopy \/ MutateNestedInCopy \/ TransformCopy \/ AccumulateIntoCopy

SpecCopy == InitCopy /\ [][NextCopy]_vars

(***************************************************************************)
(* Construction: the claims.                                               *)
(***************************************************************************)
Built == last.op = "construct" /\ outcome = "ok"

Self == rep["self"].d

\* the sources as merged: batch, model_output (None read as {}), extras
AllArgs == <<last.batch, DefaultModelOutput(last.mo)>> \o last.args

\* the call took the mapping path: every argument a Mapping, batch with
\* get_batch_size()
MappingCall ==
    /\ last.op = "construct"
    /\ last.batch.kind = "map"
    /\ last.batch.gbs # NoVal
    /\ \A i \in 1..Len(AllArgs) : AllArgs[i].kind = "map"

\* C1: for mapping sources batch and model_output with disjoint keys,
\* fields() is the keys of batch in order followed by the keys of
\* model_output in order, and nothing else.
C1_FieldsAreBatchThenModelOutput ==
    (/\ MappingCall
     /\ last.args = <<>>
     /\ KeySet(AllArgs[1].items) \cap KeySet(AllArgs[2].items) = {})
    => /\ outcome = "ok"
       /\ Fields(Self) = KeysOf(AllArgs[1].items) \o KeysOf(AllArgs[2].items)

\* key is in the Report when the source at position i (from 1) is reached
PresentBefore(i, key) ==
    \/ key \in {"batch_size", "warning_string"}
    \/ \E j \in 1..(i - 1) : Has(AllArgs[j].items, key)

LastSourceWins ==
    \A i \in 1..Len(AllArgs) : \A n \in 1..Len(AllArgs[i].items) :
        LET e == AllArgs[i].items[n]
        IN  (\A j \in (i + 1)..Len(AllArgs) : ~Has(AllArgs[j].items, e.k))
            => Has(Self, e.k) /\ Get(Self, e.k) = e.v

WarnedExactlyForExtras ==
    {warns[n] : n \in 1..Len(warns)} =
        {Warn("collision", i - 1, AllArgs[i].items[n].k) :
            <<i, n>> \in {p \in (1..Len(AllArgs)) \X (1..MaxKeys) :
                            /\ p[2] <= Len(AllArgs[p[1]].items)
                            /\ p[1] - 1 >= 2
                            /\ PresentBefore(p[1], AllArgs[p[1]].items[p[2]].k)}}

\* C3: in a construction from mapping sources a key already present is
\* overwritten by the source that carries it (the last source wins), and a
\* warning is emitted exactly when that source is at position >= 2.
C3_LastWinsWarnOnlyExtras ==
    MappingCall => outcome = "ok" /\ LastSourceWins /\ WarnedExactlyForExtras

\* no source rebinds "warning_string" to something that is no str
FormatKept ==
    \A i \in 1..Len(AllArgs) :
        Has(AllArgs[i].items, "warning_string")
        => Get(AllArgs[i].items, "warning_string").t = "str"

\* C3 holds of every construction that keeps the format string a str
C3_HoldsWhileFormatKept == FormatKept => C3_LastWinsWarnOnlyExtras

C10_EmptyBatchGivesEmptyReport ==
    (/\ last.op = "construct"
     /\ last.batch.kind \in {"none", "map", "seq"}
     /\ last.batch.items = <<>>)
    => outcome = "ok" /\ rep["self"].live /\ Self = <<>>

\* C10 as amended: with batch omitted (None) the Report is empty and
\* nothing is raised, whatever the other arguments; an empty sequence
\* raises IndexError; an empty mapping is merged like any other mapping.
C10_OmittedBatchGivesEmptyReport ==
    last.op = "construct" =>
        /\ last.batch.kind = "none"
           => outcome = "ok" /\ rep["self"].live /\ Self = <<>> /\ warns = <<>>
        /\ (last.batch.kind = "seq" /\ last.batch.items = <<>>)
           => outcome = "IndexError"
        /\ (MappingCall /\ last.batch.items = <<>> /\ outcome = "ok")
           => /\ Len(Self) >= 2
              /\ SubSeq(Fields(Self), 1, 2) = <<"batch_size", "warning_string">>
              /\ \A n \in 1..Len(AllArgs[2].items) : Has(Self, AllArgs[2].items[n].k)

C10_Witness ==
    /\ Built
    /\ last.batch.kind = "none"
    /\ last.mo.kind = "obj"
    /\ Len(last.args) > 0
    /\ Self = <<>>

(***************************************************************************)
(* Access, transforms, accumulation and copy: the claims.                  *)
(***************************************************************************)
Other == rep["other"].d

\* the Report the last call was made on, written out, after the call
Post == DeepRep(heap, rep[last.target].d)

\* C2: for every key x of a Report, the attribute report.x reads the value
\* report["x"], after construction and any subscript or attribute writes.
C2_AttributeReadsTheKey ==
    \A r \in Reports : \A i \in 1..Len(rep[r].d) :
        GetAttr(rep[r].d, rep[r].d[i].k) = rep[r].d[i].v

\* C9: get_batch_size() returns what batch.get_batch_size() returned at
\* construction, whatever apply_fn, detach and to calls were made since.
C9_BatchSizeSetOnce ==
    \A r \in Reports :
        (rep[r].live /\ ctorBS[r] # NoVal) => GetBatchSize(rep[r].d) = ctorBS[r]

\* what fn returns for a value, on written-out values
DFn(fn, dv) ==
    IF fn.name = "inc" /\ dv.kind = "int" THEN [dv EXCEPT !.n = @ + 1]
    ELSE IF fn.name = "inc" /\ dv.kind = "tensor"
         THEN [dv EXCEPT !.items = [i \in 1..Len(@) |-> DItem("", DInt(@[i].d.n + 1))]]
    ELSE IF fn.name = "to" /\ dv.kind = "tensor" THEN [dv EXCEPT !.dev = fn.dev]
    ELSE IF fn.name = "detach" /\ dv.kind = "tensor" THEN [dv EXCEPT !.grad = 0]
    ELSE dv

\* fn applied to a value, and to the elements of the list or dict it returns
DApplied(fn, dv) ==
    LET top == DFn(fn, dv)
    IN  IF top.kind \in {"list", "dict"}
        THEN [top EXCEPT !.items = [i \in 1..Len(@) |-> DItem(@[i].k, DFn(fn, @[i].d))]]
        ELSE top

\* the last call was apply_fn, or a to() that passed its device check
Transformed == last.op \in {"apply_fn", "to"} /\ outcome = "ok"

\* the Report after fn was applied to the keys in chosen, and to no other
TransformedWhere(chosen) ==
    /\ Len(Post) = Len(last.pre)
    /\ \A i \in 1..Len(Post) :
          /\ Post[i].k = last.pre[i].k
          /\ Post[i].d = IF last.pre[i].k \in chosen THEN DApplied(last.fn, last.pre[i].d)
                         ELSE last.pre[i].d

PreKeys == {last.pre[i].k : i \in 1..Len(last.pre)}

ChosenIfNonEmpty ==
    IF last.fields.kind # "none" /\ last.fields.items # {}
    THEN PreKeys \cap last.fields.items ELSE PreKeys

ChosenIfListOrTuple ==
    IF last.fields.kind \in {"list", "tuple"}
    THEN PreKeys \cap last.fields.items ELSE PreKeys

\* C4: apply_fn(fn, fields) applies fn to exactly the keys in fields when
\* fields is a non-empty collection and to every key otherwise (omitted,
\* None, empty); the other keys keep their value.
C4_NonEmptyFieldsRestrict == Transformed => TransformedWhere(ChosenIfNonEmpty)

\* C4 as amended: fn is applied to exactly the keys in fields when fields
\* is a list or a tuple (to no key when it is empty) and to every key
\* otherwise (omitted, None, a collection of another type such as a set);
\* the other keys keep their value.
C4_ListOrTupleFieldsRestrict == Transformed => TransformedWhere(ChosenIfListOrTuple)

C4_Witness ==
    /\ last.op = "apply_fn"
    /\ last.fn.name = "inc"
    /\ last.fields = [kind |-> "list", items |-> {}]
    /\ Post = last.pre
    /\ \E i \in 1..Len(Post) : DApplied(last.fn, last.pre[i].d) # last.pre[i].d

Accumulated == last.op = "accumulate"

DHas(dd, key) == \E i \in 1..Len(dd) : dd[i].k = key

DGet(dd, key) == dd[CHOOSE i \in 1..Len(dd) : dd[i].k = key].d

\* other carries a losses dict and every name listed: nothing is missing
\* but keys of self
OtherComplete ==
    /\ DHas(last.preOther, "losses")
    /\ DGet(last.preOther, "losses").kind = "dict"
    /\ \A n \in 1..Len(last.list) : DHas(last.preOther, last.list[n])

\* the loss keys of other
OtherLossKeys ==
    LET items == DGet(last.preOther, "losses").items
    IN  {items[i].k : i \in 1..Len(items)}

SelfLossKeys ==
    IF DHas(last.pre, "losses")
    THEN LET items == DGet(last.pre, "losses").items
         IN  {items[i].k : i \in 1..Len(items)}
    ELSE {}

Warned(kind, key) == \E n \in 1..Len(warns) : warns[n] = Warn(kind, 0, key)

\* C5: accumulate raises nothing because of a key missing from self: a
\* listed name absent from self and a key of other.losses absent from
\* self.losses are skipped with a warning and the rest is processed.
C5_MissingKeysOnlyWarn ==
    (Accumulated /\ OtherComplete) =>
        /\ outcome \notin {"KeyError", "AttributeError"}
        /\ outcome = "ok" =>
              /\ \A n \in 1..Len(last.list) :
                    (last.list[n] # Sentinel /\ ~DHas(last.pre, last.list[n]))
                    => Warned("field", last.list[n])
              /\ \A key \in OtherLossKeys \ SelfLossKeys : Warned("loss", key)

Rows(dv) == [i \in 1..Len(dv.items) |-> dv.items[i].d.n]

Occurrences(key) == Cardinality({n \in 1..Len(last.list) : last.list[n] = key})

RECURSIVE Repeat(_, _)
Repeat(seq, n) == IF n = 0 THEN <<>> ELSE seq \o Repeat(seq, n - 1)

\* does accumulate concatenate the field: listed, not the sentinel, a tensor
Concatenated(key) ==
    /\ key # Sentinel
    /\ Occurrences(key) > 0
    /\ DGet(last.pre, key).kind = "tensor"

\* C6: after accumulate, each listed name other than the sentinel that self
\* holds as a tensor is self's previous value followed by other's value
\* (leading length the sum of both); every other field keeps its value.
C6_ConcatenatedOnceRestKept ==
    (Accumulated /\ outcome = "ok") =>
        /\ Len(Post) = Len(last.pre)
        /\ \A i \in 1..Len(Post) :
              LET key == last.pre[i].k
              IN  /\ Post[i].k = key
                  /\ IF Concatenated(key)
                     THEN /\ Post[i].d.kind = "tensor"
                          /\ Rows(Post[i].d) =
                                Rows(last.pre[i].d) \o Rows(DGet(last.preOther, key))
                     ELSE Post[i].d = last.pre[i].d

\* a loss of self after other's losses were added: a tensor entry whose key
\* other.losses holds has other's loss added to every row
LossAdded(e) ==
    IF e.d.kind = "tensor" /\ e.k \in OtherLossKeys
    THEN LET add == Rows(DGet(DGet(last.preOther, "losses").items, e.k))
         IN  DItem(e.k, [e.d EXCEPT !.items =
                            [i \in 1..Len(@) |->
                                DItem("", DInt(@[i].d.n + add[IF Len(add) = 1 THEN 1 ELSE i]))]])
    ELSE e

\* C6 as amended: after accumulate returns, each listed name other than the
\* sentinel that self holds as a tensor is self's previous value followed
\* by other's value once per occurrence of the name in field_names; the
\* tensor entries of self.losses whose key other.losses holds have other's
\* loss added; every other field keeps its value.
C6_ConcatenatedPerOccurrence ==
    (Accumulated /\ outcome = "ok") =>
        /\ Len(Post) = Len(last.pre)
        /\ \A i \in 1..Len(Post) :
              LET key == last.pre[i].k
              IN  /\ Post[i].k = key
                  /\ IF Concatenated(key)
                     THEN /\ Post[i].d.kind = "tensor"
                          /\ Rows(Post[i].d) =
                                Rows(last.pre[i].d)
                                \o Repeat(Rows(DGet(last.preOther, key)), Occurrences(key))
                     ELSE IF key = "losses" /\ last.pre[i].d.kind = "dict"
                               /\ DHas(last.preOther, "losses")
                     THEN Post[i].d = [last.pre[i].d EXCEPT !.items =
                                          [n \in 1..Len(@) |-> LossAdded(@[n])]]
                     ELSE Post[i].d = last.pre[i].d

C6_Witness ==
    /\ Accumulated
    /\ outcome = "ok"
    /\ last.list = <<"scores", "scores">>
    /\ DHas(Post, "scores")
    /\ Rows(DGet(Post, "scores")) = <<1, 2, 3, 3>>
    /\ DHas(Post, "losses")
    /\ DGet(Post, "losses") # DGet(last.pre, "losses")

RECURSIVE Reach(_, _)
\* the objects a value refers to, directly or through its items
Reach(h, val) ==
    IF IsRef(val)
    THEN {val.v} \cup UNION {Reach(h, h[val.v].items[i].v) : i \in 1..Len(h[val.v].items)}
    ELSE {}

Objects(h, d) == UNION {Reach(h, d[i].v) : i \in 1..Len(d)}

\* C7: copy() returns a Report with the same keys in the same order and
\* equal values that shares no mutable state with the original: whatever
\* is done to the copy (key reassignment, in-place mutation of a nested
\* list or dict, apply_fn, loss accumulation), the original keeps every
\* field, the contents of its nested containers included.
C7_CopyIsIndependent ==
    rep["other"].live =>
        /\ last.op = "copy" => DeepRep(heap, Other) = snap
        /\ DeepRep(heap, Self) = snap
        /\ Objects(heap, Self) \cap Objects(heap, Other) = {}

C7_Witness ==
    /\ rep["other"].live
    /\ last.op = "setnested"
    /\ last.key = "meta"
    /\ DeepRep(heap, Other) # snap
    /\ DeepRep(heap, Self) = snap

====
